---- MODULE Spec2Model ----
(***************************************************************************)
(* Model of src-tauri/src/helios.rs: the two tauri commands start_helios   *)
(* and get_latest_block sharing HeliosState(Mutex<Option<EthereumClient>>).*)
(* Each caller thread runs one command at a time; commands of different    *)
(* callers interleave at statement granularity.                            *)
(***************************************************************************)
EXTENDS Integers, Sequences, FiniteSets, TLC

\* ---- bounds ----
NumCallers == 2
MaxCalls == 4

Callers == 1..NumCallers
ClientIds == 1..MaxCalls
ChainIds == {0, 1, 5}

\* Option::None of the registry / of a local client binding; a free mutex.
NoClient == 0
Unlocked == 0

VARIABLES
    registry,   \* HeliosState.0 content: NoClient or a client id
    lock,       \* HeliosState.0 mutex owner: Unlocked or a caller
    phase,      \* per client instance: how far its construction got
    nextClient, \* next fresh client instance id
    calls,      \* number of command invocations so far
    pc,         \* per caller: position in the running command
    op,         \* per caller: "start" | "glb" | "none"
    chain,      \* per caller: chain_id argument of the running start_helios
    client,     \* per caller: start_helios' local `client`
    cur,        \* per caller: get_latest_block's borrowed `client`
    result,     \* per caller: value returned by the last command
    nBuild, nStart, nSync, nRead, nLock, \* per caller, per invocation: calls made
    installs,   \* clients written into the registry, in order
    lastOk,     \* client of the start_helios that most recently returned Ok
    baseline,   \* per caller: lastOk when its get_latest_block was invoked
    runtime,    \* RUNTIME (Lazy<Runtime>): "uninit" | "ready" | "poisoned"
    dataDir,    \* per caller: whether app_data_dir() resolves for the running start_helios
    firstCaller, \* caller of the first command invocation, 0 before it
    lastLocker  \* client of the start_helios that most recently took the lock

vars == <<registry, lock, phase, nextClient, calls, pc, op, chain, client, cur,
          result, nBuild, nStart, nSync, nRead, nLock, installs, lastOk, baseline,
          runtime, dataDir, firstCaller, lastLocker>>

counters == <<nBuild, nStart, nSync, nRead, nLock>>

\* ---- values returned to the caller ----
NoResult == [kind |-> "None", msg |-> <<>>]
OkUnit == [kind |-> "Ok", msg |-> <<>>]
Err(m) == [kind |-> "Err", msg |-> m]

DataDirMsg == <<"could not resolve the app data directory">>
UnsupportedMsg(chain_id) == <<"Unsupported chain ID: ", chain_id>>
BuildMsg == <<"Failed to build client: ", "BuildError">>
StartMsg == <<"Failed to start client: ", "StartError">>
NotStartedMsg == <<"Client not started">>
QueryMsg == <<"Failed to get block: ", "QueryError">>
SerializationMsg == <<"Serialization error: ", "SerdeError">>

\* serde_json::to_value(block) of a block read from client c
BlockValue(c) == [kind |-> "Ok", msg |-> <<"block", c>>]

get_network_any(chain_id) ==
    IF chain_id \in {1, 5} THEN [ok |-> TRUE, network |-> "Mainnet"]
    ELSE [ok |-> FALSE, msg |-> UnsupportedMsg(chain_id)]

get_network(chain_id) ==
    IF chain_id = 1 THEN [ok |-> TRUE, network |-> "Mainnet"]
    ELSE [ok |-> FALSE, msg |-> UnsupportedMsg(chain_id)]

Init ==
    /\ registry = NoClient
    /\ lock = Unlocked
    /\ phase = [c \in ClientIds |-> "none"]
    /\ nextClient = 1
    /\ calls = 0
    /\ pc = [p \in Callers |-> "done"]
    /\ op = [p \in Callers |-> "none"]
    /\ chain = [p \in Callers |-> 1]
    /\ client = [p \in Callers |-> NoClient]
    /\ cur = [p \in Callers |-> NoClient]
    /\ result = [p \in Callers |-> NoResult]
    /\ nBuild = [p \in Callers |-> 0]
    /\ nStart = [p \in Callers |-> 0]
    /\ nSync = [p \in Callers |-> 0]
    /\ nRead = [p \in Callers |-> 0]
    /\ nLock = [p \in Callers |-> 0]
    /\ installs = <<>>
    /\ lastOk = NoClient
    /\ baseline = [p \in Callers |-> NoClient]
    /\ runtime = "uninit"
    /\ dataDir = [p \in Callers |-> TRUE]
    /\ firstCaller = 0
    /\ lastLocker = NoClient

ResetCounters(p) ==
    /\ nBuild' = [nBuild EXCEPT ![p] = 0]
    /\ nStart' = [nStart EXCEPT ![p] = 0]
    /\ nSync' = [nSync EXCEPT ![p] = 0]
    /\ nRead' = [nRead EXCEPT ![p] = 0]
    /\ nLock' = [nLock EXCEPT ![p] = 0]

\* the command returns r to its caller
Return(p, r) ==
    /\ result' = [result EXCEPT ![p] = r]
    /\ pc' = [pc EXCEPT ![p] = "done"]

\* ---------------- start_helios ----------------

\* the host dispatches start_helios(chain_id) on caller p
StartInvoke(p) ==
    /\ pc[p] = "done"
    /\ calls < MaxCalls
    /\ \E id \in ChainIds : chain' = [chain EXCEPT ![p] = id]
    /\ \E resolves \in BOOLEAN : dataDir' = [dataDir EXCEPT ![p] = resolves]
    /\ calls' = calls + 1
    /\ firstCaller' = IF calls = 0 THEN p ELSE firstCaller
    /\ UNCHANGED <<runtime, lastLocker>>
    /\ op' = [op EXCEPT ![p] = "start"]
    /\ pc' = [pc EXCEPT ![p] = "s_data_dir"]
    /\ client' = [client EXCEPT ![p] = NoClient]
    /\ cur' = [cur EXCEPT ![p] = NoClient]
    /\ result' = [result EXCEPT ![p] = NoResult]
    /\ ResetCounters(p)
    /\ UNCHANGED <<registry, lock, phase, nextClient, installs, lastOk, baseline>>

ResolveDataDir_ChainFirst(p) ==
    /\ pc[p] = "s_data_dir"
    /\ UNCHANGED <<runtime, dataDir, firstCaller, lastLocker>>
    /\ IF ~get_network(chain[p]).ok
       THEN Return(p, Err(UnsupportedMsg(chain[p])))
       ELSE IF dataDir[p]
       THEN /\ pc' = [pc EXCEPT ![p] = "s_block_on"]
            /\ UNCHANGED result
       ELSE Return(p, Err(DataDirMsg))
    /\ UNCHANGED <<registry, lock, phase, nextClient, calls, op, chain, client,
                   cur, counters, installs, lastOk, baseline>>

\* app_handle.path_resolver().app_data_dir().ok_or_else(..)?
ResolveDataDir(p) ==
    /\ pc[p] = "s_data_dir"
    /\ UNCHANGED <<runtime, dataDir, firstCaller, lastLocker>>
    /\ IF dataDir[p]
       THEN /\ pc' = [pc EXCEPT ![p] = "s_block_on"]
            /\ UNCHANGED result
       ELSE Return(p, Err(DataDirMsg))
    /\ UNCHANGED <<registry, lock, phase, nextClient, calls, op, chain, client,
                   cur, counters, installs, lastOk, baseline>>

\* Deref of RUNTIME on entering RUNTIME.block_on: the first use runs the Lazy
\* initialiser, whose .expect() panics when the runtime cannot be built; a
\* Lazy whose initialiser panicked is poisoned and panics on every later use.
EnterRuntime(p, next) ==
    IF runtime = "ready"
    THEN /\ pc' = [pc EXCEPT ![p] = next]
         /\ UNCHANGED runtime
    ELSE IF runtime = "uninit"
    THEN \E created \in BOOLEAN :
            IF created
            THEN /\ runtime' = "ready"
                 /\ pc' = [pc EXCEPT ![p] = next]
            ELSE /\ runtime' = "poisoned"
                 /\ pc' = [pc EXCEPT ![p] = "panicked"]
    ELSE /\ pc' = [pc EXCEPT ![p] = "panicked"]
         /\ UNCHANGED runtime

\* RUNTIME.block_on(async { .. }) of start_helios
StartBlockOn(p) ==
    /\ pc[p] = "s_block_on"
    /\ EnterRuntime(p, "s_network")
    /\ UNCHANGED <<registry, lock, phase, nextClient, calls, op, chain, client,
                   cur, result, counters, installs, lastOk, baseline, dataDir,
                   firstCaller, lastLocker>>

GetNetwork_Ignored(p) ==
    /\ pc[p] = "s_network"
    /\ UNCHANGED <<runtime, dataDir, firstCaller, lastLocker>>
    /\ pc' = [pc EXCEPT ![p] = "s_build"]
    /\ UNCHANGED <<result, registry, lock, phase, nextClient, calls, op, chain,
                   client, cur, counters, installs, lastOk, baseline>>

\* let network = get_network(chain_id)?;
GetNetwork(p) ==
    /\ pc[p] = "s_network"
    /\ UNCHANGED <<runtime, dataDir, firstCaller, lastLocker>>
    /\ LET n == get_network(chain[p]) IN
        IF n.ok
        THEN /\ pc' = [pc EXCEPT ![p] = "s_build"]
             /\ UNCHANGED result
        ELSE Return(p, Err(n.msg))
    /\ UNCHANGED <<registry, lock, phase, nextClient, calls, op, chain, client,
                   cur, counters, installs, lastOk, baseline>>

\* EthereumClientBuilder::new()...build().map_err(..)?
Build(p) ==
    /\ pc[p] = "s_build"
    /\ UNCHANGED <<runtime, dataDir, firstCaller, lastLocker>>
    /\ nBuild' = [nBuild EXCEPT ![p] = @ + 1]
    /\ \E built \in BOOLEAN :
        IF built
        THEN /\ client' = [client EXCEPT ![p] = nextClient]
             /\ phase' = [phase EXCEPT ![nextClient] = "built"]
             /\ nextClient' = nextClient + 1
             /\ pc' = [pc EXCEPT ![p] = "s_start"]
             /\ UNCHANGED result
        ELSE /\ Return(p, Err(BuildMsg))
             /\ UNCHANGED <<client, phase, nextClient>>
    /\ UNCHANGED <<registry, lock, calls, op, chain, cur, nStart, nSync, nRead,
                   nLock, installs, lastOk, baseline>>

ClientStart_ClearsOnFailure(p) ==
    /\ pc[p] = "s_start"
    /\ UNCHANGED <<runtime, dataDir, firstCaller, lastLocker>>
    /\ nStart' = [nStart EXCEPT ![p] = @ + 1]
    /\ \E started \in BOOLEAN :
        IF started
        THEN /\ phase' = [phase EXCEPT ![client[p]] = "started"]
             /\ pc' = [pc EXCEPT ![p] = "s_sync"]
             /\ UNCHANGED <<result, registry>>
        ELSE /\ phase' = [phase EXCEPT ![client[p]] = "dropped"]
             /\ registry' = NoClient
             /\ Return(p, Err(StartMsg))
    /\ UNCHANGED <<lock, nextClient, calls, op, chain, client, cur, nBuild,
                   nSync, nRead, nLock, installs, lastOk, baseline>>

ClientStart_SkipsSync(p) ==
    /\ pc[p] = "s_start"
    /\ UNCHANGED <<runtime, dataDir, firstCaller, lastLocker>>
    /\ nStart' = [nStart EXCEPT ![p] = @ + 1]
    /\ \E started \in BOOLEAN :
        IF started
        THEN /\ phase' = [phase EXCEPT ![client[p]] = "started"]
             /\ pc' = [pc EXCEPT ![p] = "s_lock"]
             /\ UNCHANGED result
        ELSE /\ phase' = [phase EXCEPT ![client[p]] = "dropped"]
             /\ Return(p, Err(StartMsg))
    /\ UNCHANGED <<registry, lock, nextClient, calls, op, chain, client, cur,
                   nBuild, nSync, nRead, nLock, installs, lastOk, baseline>>

\* client.start().await.map_err(..)?  (a failed client is dropped with the block)
ClientStart(p) ==
    /\ pc[p] = "s_start"
    /\ UNCHANGED <<runtime, dataDir, firstCaller, lastLocker>>
    /\ nStart' = [nStart EXCEPT ![p] = @ + 1]
    /\ \E started \in BOOLEAN :
        IF started
        THEN /\ phase' = [phase EXCEPT ![client[p]] = "started"]
             /\ pc' = [pc EXCEPT ![p] = "s_sync"]
             /\ UNCHANGED result
        ELSE /\ phase' = [phase EXCEPT ![client[p]] = "dropped"]
             /\ Return(p, Err(StartMsg))
    /\ UNCHANGED <<registry, lock, nextClient, calls, op, chain, client, cur,
                   nBuild, nSync, nRead, nLock, installs, lastOk, baseline>>

WaitSynced_NotAwaited(p) ==
    /\ pc[p] = "s_sync"
    /\ UNCHANGED <<runtime, dataDir, firstCaller, lastLocker>>
    /\ pc' = [pc EXCEPT ![p] = "s_lock"]
    /\ UNCHANGED <<registry, lock, phase, nextClient, calls, op, chain, client,
                   cur, result, counters, installs, lastOk, baseline>>

\* client.wait_synced().await; Ok(client)
WaitSynced(p) ==
    /\ pc[p] = "s_sync"
    /\ UNCHANGED <<runtime, dataDir, firstCaller, lastLocker>>
    /\ nSync' = [nSync EXCEPT ![p] = @ + 1]
    /\ phase' = [phase EXCEPT ![client[p]] = "synced"]
    /\ pc' = [pc EXCEPT ![p] = "s_lock"]
    /\ UNCHANGED <<registry, lock, nextClient, calls, op, chain, client, cur,
                   result, nBuild, nStart, nRead, nLock, installs, lastOk, baseline>>

StartLock_NoWait(p) ==
    /\ pc[p] = "s_lock"
    /\ lastLocker' = client[p]
    /\ UNCHANGED <<runtime, dataDir, firstCaller>>
    /\ lock' = p
    /\ nLock' = [nLock EXCEPT ![p] = @ + 1]
    /\ pc' = [pc EXCEPT ![p] = "s_install"]
    /\ UNCHANGED <<registry, phase, nextClient, calls, op, chain, client, cur,
                   result, nBuild, nStart, nSync, nRead, installs, lastOk, baseline>>

\* let mut guard = state.0.lock().unwrap();
StartLock(p) ==
    /\ pc[p] = "s_lock"
    /\ lastLocker' = client[p]
    /\ UNCHANGED <<runtime, dataDir, firstCaller>>
    /\ lock = Unlocked
    /\ lock' = p
    /\ nLock' = [nLock EXCEPT ![p] = @ + 1]
    /\ pc' = [pc EXCEPT ![p] = "s_install"]
    /\ UNCHANGED <<registry, phase, nextClient, calls, op, chain, client, cur,
                   result, nBuild, nStart, nSync, nRead, installs, lastOk, baseline>>

Install_KeepsExisting(p) ==
    /\ pc[p] = "s_install"
    /\ UNCHANGED <<runtime, dataDir, firstCaller, lastLocker>>
    /\ IF registry = NoClient
       THEN /\ registry' = client[p]
            /\ installs' = Append(installs, client[p])
            /\ UNCHANGED phase
       ELSE /\ phase' = [phase EXCEPT ![client[p]] = "dropped"]
            /\ UNCHANGED <<registry, installs>>
    /\ pc' = [pc EXCEPT ![p] = "s_unlock"]
    /\ UNCHANGED <<lock, nextClient, calls, op, chain, client, cur, result,
                   counters, lastOk, baseline>>

Install_TogglesHandle(p) ==
    /\ pc[p] = "s_install"
    /\ UNCHANGED <<runtime, dataDir, firstCaller, lastLocker>>
    /\ IF registry = NoClient
       THEN /\ registry' = client[p]
            /\ installs' = Append(installs, client[p])
            /\ UNCHANGED phase
       ELSE /\ registry' = NoClient
            /\ phase' = [phase EXCEPT ![registry] = "dropped", ![client[p]] = "dropped"]
            /\ UNCHANGED installs
    /\ pc' = [pc EXCEPT ![p] = "s_unlock"]
    /\ UNCHANGED <<lock, nextClient, calls, op, chain, client, cur, result,
                   counters, lastOk, baseline>>

Install_NewestBuildWins(p) ==
    /\ pc[p] = "s_install"
    /\ UNCHANGED <<runtime, dataDir, firstCaller, lastLocker>>
    /\ IF registry < client[p]
       THEN /\ registry' = client[p]
            /\ installs' = Append(installs, client[p])
            /\ phase' = IF registry = NoClient THEN phase
                        ELSE [phase EXCEPT ![registry] = "dropped"]
       ELSE /\ phase' = [phase EXCEPT ![client[p]] = "dropped"]
            /\ UNCHANGED <<registry, installs>>
    /\ pc' = [pc EXCEPT ![p] = "s_unlock"]
    /\ UNCHANGED <<lock, nextClient, calls, op, chain, client, cur, result,
                   counters, lastOk, baseline>>

\* *guard = Some(client);  (the replaced client, if any, is dropped)
Install(p) ==
    /\ pc[p] = "s_install"
    /\ UNCHANGED <<runtime, dataDir, firstCaller, lastLocker>>
    /\ registry' = client[p]
    /\ installs' = Append(installs, client[p])
    /\ phase' = IF registry = NoClient THEN phase
                ELSE [phase EXCEPT ![registry] = "dropped"]
    /\ pc' = [pc EXCEPT ![p] = "s_unlock"]
    /\ UNCHANGED <<lock, nextClient, calls, op, chain, client, cur, result,
                   counters, lastOk, baseline>>

\* Ok(()) ; the guard goes out of scope and the command returns
StartUnlock(p) ==
    /\ pc[p] = "s_unlock"
    /\ UNCHANGED <<runtime, dataDir, firstCaller, lastLocker>>
    /\ lock' = Unlocked
    /\ lastOk' = client[p]
    /\ Return(p, OkUnit)
    /\ UNCHANGED <<registry, phase, nextClient, calls, op, chain, client, cur,
                   counters, installs, baseline>>

\* ---------------- get_latest_block ----------------

\* the host dispatches get_latest_block on caller p
GlbInvoke(p) ==
    /\ pc[p] = "done"
    /\ calls < MaxCalls
    /\ calls' = calls + 1
    /\ firstCaller' = IF calls = 0 THEN p ELSE firstCaller
    /\ UNCHANGED <<runtime, dataDir, lastLocker>>
    /\ op' = [op EXCEPT ![p] = "glb"]
    /\ pc' = [pc EXCEPT ![p] = "g_block_on"]
    /\ client' = [client EXCEPT ![p] = NoClient]
    /\ cur' = [cur EXCEPT ![p] = NoClient]
    /\ result' = [result EXCEPT ![p] = NoResult]
    /\ baseline' = [baseline EXCEPT ![p] = lastOk]
    /\ ResetCounters(p)
    /\ UNCHANGED <<registry, lock, phase, nextClient, chain, installs, lastOk>>

\* RUNTIME.block_on(async { .. }) of get_latest_block
GlbBlockOn(p) ==
    /\ pc[p] = "g_block_on"
    /\ EnterRuntime(p, "g_lock")
    /\ UNCHANGED <<registry, lock, phase, nextClient, calls, op, chain, client,
                   cur, result, counters, installs, lastOk, baseline, dataDir,
                   firstCaller, lastLocker>>

\* let guard = state.0.lock().unwrap();
GlbLock(p) ==
    /\ pc[p] = "g_lock"
    /\ UNCHANGED <<runtime, dataDir, firstCaller, lastLocker>>
    /\ lock = Unlocked
    /\ lock' = p
    /\ nLock' = [nLock EXCEPT ![p] = @ + 1]
    /\ pc' = [pc EXCEPT ![p] = "g_check"]
    /\ UNCHANGED <<registry, phase, nextClient, calls, op, chain, client, cur,
                   result, nBuild, nStart, nSync, nRead, installs, lastOk, baseline>>

GlbCheck_NoPresenceTest(p) ==
    /\ pc[p] = "g_check"
    /\ UNCHANGED <<runtime, dataDir, firstCaller, lastLocker>>
    /\ cur' = [cur EXCEPT ![p] = registry]
    /\ nRead' = [nRead EXCEPT ![p] = @ + 1]
    /\ pc' = [pc EXCEPT ![p] = "g_read"]
    /\ UNCHANGED <<lock, result, registry, phase, nextClient, calls, op, chain,
                   client, nBuild, nStart, nSync, nLock, installs, lastOk, baseline>>

GlbCheck_UnlocksBeforeRead(p) ==
    /\ pc[p] = "g_check"
    /\ UNCHANGED <<runtime, dataDir, firstCaller, lastLocker>>
    /\ lock' = Unlocked
    /\ IF registry # NoClient
       THEN /\ cur' = [cur EXCEPT ![p] = registry]
            /\ nRead' = [nRead EXCEPT ![p] = @ + 1]
            /\ pc' = [pc EXCEPT ![p] = "g_read"]
            /\ UNCHANGED result
       ELSE /\ Return(p, Err(NotStartedMsg))
            /\ UNCHANGED <<cur, nRead>>
    /\ UNCHANGED <<registry, phase, nextClient, calls, op, chain, client,
                   nBuild, nStart, nSync, nLock, installs, lastOk, baseline>>

\* if let Some(client) = guard.as_ref() { client.get_block_by_number(..) ..
\* } else { Err("Client not started") }
GlbCheck(p) ==
    /\ pc[p] = "g_check"
    /\ UNCHANGED <<runtime, dataDir, firstCaller, lastLocker>>
    /\ IF registry # NoClient
       THEN /\ cur' = [cur EXCEPT ![p] = registry]
            /\ nRead' = [nRead EXCEPT ![p] = @ + 1]
            /\ pc' = [pc EXCEPT ![p] = "g_read"]
            /\ UNCHANGED <<lock, result>>
       ELSE /\ lock' = Unlocked
            /\ Return(p, Err(NotStartedMsg))
            /\ UNCHANGED <<cur, nRead>>
    /\ UNCHANGED <<registry, phase, nextClient, calls, op, chain, client,
                   nBuild, nStart, nSync, nLock, installs, lastOk, baseline>>

GlbRead_DropsOnFailure(p) ==
    /\ pc[p] = "g_read"
    /\ UNCHANGED <<runtime, dataDir, firstCaller, lastLocker>>
    /\ \E read \in BOOLEAN :
        IF read
        THEN /\ pc' = [pc EXCEPT ![p] = "g_ser"]
             /\ UNCHANGED <<lock, result, registry, phase>>
        ELSE /\ lock' = Unlocked
             /\ registry' = NoClient
             /\ phase' = [phase EXCEPT ![cur[p]] = "dropped"]
             /\ Return(p, Err(QueryMsg))
    /\ UNCHANGED <<nextClient, calls, op, chain, client, cur,
                   counters, installs, lastOk, baseline>>

\* .await.map_err(|e| format!("Failed to get block: {:?}", e))?
GlbRead(p) ==
    /\ pc[p] = "g_read"
    /\ UNCHANGED <<runtime, dataDir, firstCaller, lastLocker>>
    /\ \E read \in BOOLEAN :
        IF read
        THEN /\ pc' = [pc EXCEPT ![p] = "g_ser"]
             /\ UNCHANGED <<lock, result>>
        ELSE /\ lock' = Unlocked
             /\ Return(p, Err(QueryMsg))
    /\ UNCHANGED <<registry, phase, nextClient, calls, op, chain, client, cur,
                   counters, installs, lastOk, baseline>>

GlbSerialize_WrongError(p) ==
    /\ pc[p] = "g_ser"
    /\ UNCHANGED <<runtime, dataDir, firstCaller, lastLocker>>
    /\ lock' = Unlocked
    /\ \E encoded \in BOOLEAN :
        Return(p, IF encoded THEN BlockValue(cur[p]) ELSE Err(QueryMsg))
    /\ UNCHANGED <<registry, phase, nextClient, calls, op, chain, client, cur,
                   counters, installs, lastOk, baseline>>

\* serde_json::to_value(block).map_err(..) ; the guard goes out of scope
GlbSerialize(p) ==
    /\ pc[p] = "g_ser"
    /\ UNCHANGED <<runtime, dataDir, firstCaller, lastLocker>>
    /\ lock' = Unlocked
    /\ \E encoded \in BOOLEAN :
        Return(p, IF encoded THEN BlockValue(cur[p]) ELSE Err(SerializationMsg))
    /\ UNCHANGED <<registry, phase, nextClient, calls, op, chain, client, cur,
                   counters, installs, lastOk, baseline>>

Next ==
    \E p \in Callers :
        \/ StartInvoke(p)
        \/ ResolveDataDir(p)
        \/ StartBlockOn(p)
        \/ GetNetwork(p)
        \/ Build(p)
        \/ ClientStart(p)
        \/ WaitSynced(p)
        \/ StartLock(p)
        \/ Install(p)
        \/ StartUnlock(p)
        \/ GlbInvoke(p)
        \/ GlbBlockOn(p)
        \/ GlbLock(p)
        \/ GlbCheck(p)
        \/ GlbRead(p)
        \/ GlbSerialize(p)

Spec == Init /\ [][Next]_vars

\* one statement of the command running on caller p
Step(p) ==
    \/ ResolveDataDir(p) \/ StartBlockOn(p) \/ GetNetwork(p) \/ Build(p)
    \/ ClientStart(p) \/ WaitSynced(p) \/ StartLock(p) \/ Install(p)
    \/ StartUnlock(p) \/ GlbBlockOn(p) \/ GlbLock(p) \/ GlbCheck(p)
    \/ GlbRead(p) \/ GlbSerialize(p)

\* every external call returns and every runnable command is scheduled
FairSpec == Spec /\ \A p \in Callers : WF_vars(Step(p))

TypeOK ==
    /\ registry \in {NoClient} \cup ClientIds
    /\ lock \in {Unlocked} \cup Callers
    /\ calls \in 0..MaxCalls
    /\ nextClient \in 1..(MaxCalls + 1)
    /\ runtime \in {"uninit", "ready", "poisoned"}
    /\ lastLocker \in {NoClient} \cup ClientIds

\* ---------------- properties ----------------

IsStart(p) == op[p] = "start"
IsGlb(p) == op[p] = "glb"
Reading(p) == pc[p] \in {"g_read", "g_ser"}
InCritical(p) == pc[p] \in {"s_install", "s_unlock", "g_check", "g_read", "g_ser"}
WaitsForLock(p) == pc[p] \in {"s_lock", "g_lock"}
InNetworkIO(p) == pc[p] \in {"s_build", "s_start", "s_sync", "g_read"}
Active == {c \in ClientIds : phase[c] \in {"started", "synced"}}
\* position of client c in the order of installation, 0 when never installed
Pos(c) ==
    IF \E i \in 1..Len(installs) : installs[i] = c
    THEN CHOOSE i \in 1..Len(installs) : installs[i] = c
    ELSE 0

\* C1: a get_latest_block whose presence test runs while no start_helios has
\* returned Ok returns Err("Client not started") and has issued no block read.
C1_NotStartedBeforeStart ==
    [][\A p \in Callers :
        (pc[p] = "g_check" /\ pc'[p] # "g_check" /\ lastOk = NoClient)
            => /\ pc'[p] = "done"
               /\ result'[p] = Err(NotStartedMsg)
               /\ nRead'[p] = 0]_vars

\* C1 witness: a get_latest_block returned NotStarted while a start_helios
\* is synced but has not installed yet.
C1_Witness ==
    \E p, q \in Callers :
        /\ IsGlb(p) /\ pc[p] = "done" /\ result[p] = Err(NotStartedMsg)
        /\ nRead[p] = 0
        /\ IsStart(q) /\ pc[q] = "s_lock" /\ lastOk = NoClient

\* C2: the step on which a start_helios returns an error leaves the registry
\* as it was, that invocation never took the lock, and the registry is only
\* ever written by an invocation that took the lock after its sync.
C2_FailedStartLeavesRegistry ==
    [][/\ \A p \in Callers :
            (IsStart(p) /\ pc[p] # "done" /\ pc'[p] = "done" /\ result'[p].kind = "Err")
                => /\ registry' = registry
                   /\ nLock'[p] = 0
                   /\ lock' = lock
       /\ registry' # registry
            => \E q \in Callers :
                 /\ pc[q] = "s_install" /\ nLock[q] = 1 /\ nSync[q] = 1
                 /\ registry' = client[q]]_vars

\* C2 witness: a start_helios failed in client.start() while an earlier
\* handle is installed, and that handle is still installed.
C2_Witness ==
    \E p \in Callers :
        /\ IsStart(p) /\ pc[p] = "done" /\ result[p] = Err(StartMsg)
        /\ registry # NoClient /\ registry # client[p]
        /\ phase[client[p]] = "dropped"

\* C3: the registry only ever holds a client whose build, start and
\* wait_synced have completed, and a block read only ever runs on such a client.
C3_OnlySyncedInstalled ==
    /\ registry # NoClient => phase[registry] = "synced"
    /\ \A p \in Callers : Reading(p) => phase[cur[p]] = "synced"

\* C3 witness: a block read is in progress on the installed client while
\* another start_helios is still waiting for its own client to sync.
C3_Witness ==
    \E p, q \in Callers :
        /\ pc[p] = "g_read" /\ cur[p] = registry
        /\ pc[q] = "s_sync" /\ phase[client[q]] = "started"

\* C4 (as claimed): no command holds the registry lock while it is suspended
\* on network I/O (build, start, sync wait, block read).
C4_NoLockAcrossNetworkIO ==
    \A p \in Callers : InNetworkIO(p) => lock # p

\* C5 (as claimed): every start_helios with a chain id other than 1 fails
\* with "Unsupported chain ID: <id>".
C5_UnsupportedAlways ==
    \A p \in Callers :
        (IsStart(p) /\ pc[p] = "done" /\ chain[p] # 1)
            => result[p] = Err(UnsupportedMsg(chain[p]))

\* C5 (amended): a start_helios with a chain id other than 1 never gets past
\* chain resolution; once its data directory has resolved it returns
\* "Unsupported chain ID: <id>", otherwise it returns the data-directory
\* error; either way it leaves the registry unchanged and takes no lock.
C5_UnsupportedAfterDataDir ==
    [][\A p \in Callers :
        (op'[p] = "start" /\ chain'[p] # 1)
            => /\ pc'[p] \in {"s_data_dir", "s_block_on", "s_network", "done", "panicked"}
               /\ (pc[p] = "s_network" /\ pc'[p] # "s_network")
                    => /\ pc'[p] = "done"
                       /\ result'[p] = Err(UnsupportedMsg(chain'[p]))
                       /\ registry' = registry
               /\ pc'[p] = "done"
                    => /\ result'[p] \in {Err(DataDirMsg), Err(UnsupportedMsg(chain'[p]))}
                       /\ nLock'[p] = 0]_vars

\* C5 witness: start_helios(chain_id = 5) returned "Unsupported chain ID: 5"
\* while a handle is installed.
C5_Witness ==
    \E p \in Callers :
        /\ IsStart(p) /\ pc[p] = "done" /\ chain[p] = 5
        /\ result[p] = Err(<<"Unsupported chain ID: ", 5>>)
        /\ registry # NoClient

\* C6: a start_helios with a chain id other than 1 never calls build, start
\* or wait_synced.
C6_FailFast ==
    \A p \in Callers :
        (IsStart(p) /\ chain[p] # 1)
            => nBuild[p] = 0 /\ nStart[p] = 0 /\ nSync[p] = 0

\* C6 witness: a start_helios with an unsupported chain id has returned its
\* UnsupportedChain error.
C6_Witness ==
    \E p \in Callers :
        /\ IsStart(p) /\ pc[p] = "done" /\ chain[p] # 1
        /\ result[p] = Err(UnsupportedMsg(chain[p]))
        /\ nBuild[p] = 0

\* C7: a successful start_helios leaves its own client in the registry when it
\* returns, and a get_latest_block invoked after some start_helios returned Ok
\* reads from (and returns the block of) that start's client or one installed
\* later, never one installed earlier.
C7_ReadsLatestStart ==
    /\ \A p \in Callers : pc[p] = "s_unlock" => registry = client[p]
    /\ \A p \in Callers :
        (IsGlb(p) /\ baseline[p] # NoClient /\ cur[p] # NoClient)
            => /\ Pos(baseline[p]) >= 1
               /\ Pos(cur[p]) >= Pos(baseline[p])
               /\ (pc[p] = "done" /\ result[p].kind = "Ok")
                    => result[p] = BlockValue(cur[p])

\* C7 witness: after a second start_helios replaced the first handle and
\* returned, a get_latest_block returned the second client's block.
C7_Witness ==
    \E p \in Callers :
        /\ IsGlb(p) /\ pc[p] = "done" /\ Len(installs) = 2
        /\ baseline[p] = installs[2]
        /\ result[p] = BlockValue(installs[2])
        /\ phase[installs[1]] = "dropped"

\* C8: from its presence test to the end of its block read and encoding, the
\* handle a get_latest_block reads from is the one in the registry: it is
\* neither replaced nor absent, and no installation is in progress.
C8_StableHandleDuringRead ==
    \A p \in Callers :
        Reading(p)
            => /\ cur[p] # NoClient
               /\ registry = cur[p]
               /\ \A q \in Callers : pc[q] # "s_install"

\* C8 witness: a block read is in progress while a synced start_helios is
\* waiting to install its new handle.
C8_Witness ==
    \E p, q \in Callers :
        /\ pc[p] = "g_read" /\ pc[q] = "s_lock"
        /\ client[q] # registry

\* C9: at most one invocation is inside the lock-protected section, it is the
\* lock owner, and a waiting invocation only proceeds when the lock is free.
C9_MutualExclusion ==
    [][/\ Cardinality({p \in Callers : InCritical(p)}) <= 1
       /\ \A p \in Callers : InCritical(p) => lock = p
       /\ \A p \in Callers :
            (WaitsForLock(p) /\ pc'[p] # pc[p])
                => lock = Unlocked /\ lock' = p]_vars

\* C9 witness: one invocation is inside the critical section while another
\* is blocked on the lock.
C9_Witness ==
    \E p, q \in Callers :
        /\ InCritical(p) /\ lock = p
        /\ WaitsForLock(q) /\ IsStart(q) /\ IsGlb(p)

\* C10 (as claimed): at most one started light-client instance is alive.
C10_AtMostOneActiveClient ==
    Cardinality(Active) <= 1

\* C11: a start_helios that returned Ok has completed its wait_synced and
\* installed its client; a start_helios that has not completed its sync wait
\* has neither returned nor taken the lock nor installed anything.
C11_ReadinessBarrier ==
    \A p \in Callers :
        IsStart(p)
            => /\ (pc[p] = "done" /\ result[p] = OkUnit)
                    => /\ nSync[p] = 1
                       /\ phase[client[p]] \in {"synced", "dropped"}
                       /\ Pos(client[p]) >= 1
               /\ pc[p] \in {"s_data_dir", "s_block_on", "s_network", "s_build",
                             "s_start", "s_sync"}
                    => /\ result[p] = NoResult
                       /\ nLock[p] = 0
                       /\ client[p] # NoClient
                            => Pos(client[p]) = 0 /\ registry # client[p]

\* C11 witness: one start_helios has returned Ok with its handle installed
\* while another is still in its sync wait with nothing installed.
C11_Witness ==
    \E p, q \in Callers :
        /\ IsStart(p) /\ pc[p] = "done" /\ result[p] = OkUnit
        /\ registry = client[p]
        /\ IsStart(q) /\ pc[q] = "s_sync" /\ Pos(client[q]) = 0

\* C12: no step of a get_latest_block changes the registry or any client's
\* construction state, and a get_latest_block never calls build, start or
\* wait_synced.
C12_ReadHasNoSideEffect ==
    [][\A p \in Callers :
        (op'[p] = "glb" /\ pc'[p] # pc[p])
            => /\ registry' = registry
               /\ phase' = phase
               /\ installs' = installs
               /\ nBuild'[p] = 0 /\ nStart'[p] = 0 /\ nSync'[p] = 0]_vars

\* C12 witness: a get_latest_block returned QueryFailed and the handle it
\* read from is still installed and synced.
C12_Witness ==
    \E p \in Callers :
        /\ IsGlb(p) /\ pc[p] = "done" /\ result[p] = Err(QueryMsg)
        /\ cur[p] # NoClient /\ registry = cur[p]
        /\ phase[cur[p]] = "synced"

\* C13: with a handle installed get_latest_block issues exactly one block
\* read; a failed read returns QueryFailed without encoding, a successful
\* read is encoded and returns the block value or SerializationFailed.
C13_ExactlyOneOutcome ==
    [][\A p \in Callers :
        /\ (pc[p] = "g_check" /\ pc'[p] # pc[p] /\ registry # NoClient)
            => pc'[p] = "g_read" /\ nRead'[p] = 1
        /\ (pc[p] = "g_read" /\ pc'[p] # pc[p])
            => /\ nRead'[p] = 1
               /\ \/ pc'[p] = "g_ser" /\ result'[p] = NoResult
                  \/ pc'[p] = "done" /\ result'[p] = Err(QueryMsg)
        /\ (pc[p] = "g_ser" /\ pc'[p] # pc[p])
            => /\ nRead'[p] = 1
               /\ pc'[p] = "done"
               /\ result'[p] \in {BlockValue(cur[p]), Err(SerializationMsg)}
        /\ (pc[p] # "done" /\ pc'[p] = "done" /\ result'[p] = Err(QueryMsg))
            => pc[p] = "g_read"]_vars

\* C13 witness: a get_latest_block made one read and returned
\* SerializationFailed.
C13_Witness ==
    \E p \in Callers :
        /\ IsGlb(p) /\ pc[p] = "done" /\ result[p] = Err(SerializationMsg)
        /\ nRead[p] = 1 /\ registry = cur[p]

\* C14 (as claimed): within one invocation build, start, wait_synced and the
\* block read are each called at most once, and no invocation ends panicked.
C14_NoRetryNoPanic ==
    \A p \in Callers :
        /\ nBuild[p] <= 1 /\ nStart[p] <= 1 /\ nSync[p] <= 1 /\ nRead[p] <= 1
        /\ pc[p] # "panicked"

\* C15: start_helios runs data-directory resolution, chain resolution, build,
\* start, sync wait and install in that order; the first failing step decides
\* the error and nothing after it runs, so an unresolvable data directory
\* wins over an unsupported chain id.
C15_FirstFailureDecides ==
    \A p \in Callers :
        IsStart(p)
            => /\ nBuild[p] <= 1
               /\ nStart[p] <= nBuild[p]
               /\ nSync[p] <= nStart[p]
               /\ nLock[p] <= nSync[p]
               /\ nBuild[p] = 1 => dataDir[p] /\ chain[p] = 1
               /\ pc[p] = "done"
                    => /\ ~dataDir[p] => result[p] = Err(DataDirMsg)
                       /\ (dataDir[p] /\ chain[p] # 1)
                            => result[p] = Err(UnsupportedMsg(chain[p]))
                       /\ result[p] = Err(BuildMsg)
                            => nBuild[p] = 1 /\ nStart[p] = 0
                       /\ result[p] = Err(StartMsg)
                            => nStart[p] = 1 /\ nSync[p] = 0
                       /\ result[p] = OkUnit
                            => nBuild[p] = 1 /\ nStart[p] = 1 /\ nSync[p] = 1 /\ nLock[p] = 1

\* C15 witness: start_helios(chain_id = 5) with an unresolvable data
\* directory returned the data-directory error.
C15_Witness ==
    \E p \in Callers :
        /\ IsStart(p) /\ pc[p] = "done" /\ ~dataDir[p] /\ chain[p] = 5
        /\ result[p] = Err(DataDirMsg)

\* C16: once a handle is installed the registry is never absent again, and a
\* get_latest_block whose presence test runs after an installation goes on to
\* read instead of returning NotStarted.
C16_RegistryMonotone ==
    [][/\ registry # NoClient => registry' # NoClient
       /\ \A p \in Callers :
            (pc[p] = "g_check" /\ pc'[p] # pc[p] /\ installs # <<>>)
                => pc'[p] = "g_read" /\ result'[p] # Err(NotStartedMsg)]_vars

\* C16 witness: after an installation a later start_helios failed in build,
\* the handle is still installed and a get_latest_block returned a block.
C16_Witness ==
    \E p, q \in Callers :
        /\ IsStart(p) /\ pc[p] = "done" /\ result[p] = Err(BuildMsg)
        /\ registry # NoClient
        /\ IsGlb(q) /\ pc[q] = "done" /\ result[q] = BlockValue(registry)

\* C17: whenever no installation is in progress the registry holds the client
\* of the start_helios that took the lock last.
C17_LastLockerWins ==
    (\A p \in Callers : pc[p] # "s_install") => registry = lastLocker

\* C17 witness: of two overlapping start_helios the one invoked first took
\* the lock last, and its client replaced the client of the one invoked later.
C17_Witness ==
    \E p, q \in Callers :
        /\ calls = 2 /\ firstCaller = p /\ q # p
        /\ IsStart(p) /\ pc[p] = "done" /\ result[p] = OkUnit
        /\ IsStart(q) /\ pc[q] = "done" /\ result[q] = OkUnit
        /\ installs = <<client[q], client[p]>>
        /\ registry = client[p]

\* C18 (as claimed): under fair scheduling every invocation eventually
\* returns, the lock is eventually free again, and no invocation takes the
\* lock twice.
C18_EveryInvocationReturns ==
    /\ \A p \in Callers : (pc[p] # "done") ~> (pc[p] = "done")
    /\ (lock # Unlocked) ~> (lock = Unlocked)
    /\ [](\A p \in Callers : nLock[p] <= 1)
====
